---- MODULE Spec2Model ----
(***************************************************************************)
(* A model of the image-processing pipeline of nukki-app:                  *)
(*   src/core/background_remover.py  BackgroundRemover                     *)
(* The calls into rembg (new_session, remove), OpenCV (face cascade) and   *)
(* PIL (open, convert, GaussianBlur) are library calls: each either        *)
(* returns or raises, chosen nondeterministically.                         *)
(***************************************************************************)
EXTENDS Integers, Sequences, FiniteSets, TLC

(* ---------------- bounds of the model ---------------- *)

\* number of threads that call remove_background on the one BackgroundRemover
NumThreads == 2
\* longest input list handed to remove_background_batch
MaxBatch == 3
\* longest response text of the structured-assessment call, in tokens
MaxText == 5
\* most lines in a response text of the quality-score call
MaxLines == 3

\* number of image files the user adds as cards
NumCards == 2

Threads == 1..NumThreads

(* ---------------- class constants ---------------- *)

AVAILABLE_MODELS ==
    {"birefnet-general", "birefnet-portrait", "isnet-general-use", "u2net", "silueta"}

PORTRAIT_MODEL == "birefnet-portrait"

\* blur_radius is kept in tenths (0.5 -> 5, 0.3 -> 3) so that it stays an integer
QUALITY_PRESETS ==
    [fast   |-> [alpha_matting |-> FALSE, foreground_threshold |-> 240,
                 background_threshold |-> 10, erode_size |-> 10, blur_radius |-> 0],
     normal |-> [alpha_matting |-> TRUE, foreground_threshold |-> 240,
                 background_threshold |-> 10, erode_size |-> 10, blur_radius |-> 5],
     high   |-> [alpha_matting |-> TRUE, foreground_threshold |-> 220,
                 background_threshold |-> 5, erode_size |-> 5, blur_radius |-> 3]]

\* QUALITY_PRESETS.get(quality, QUALITY_PRESETS['normal'])
PresetOf(quality) ==
    IF quality \in DOMAIN QUALITY_PRESETS THEN QUALITY_PRESETS[quality]
    ELSE QUALITY_PRESETS["normal"]

(* ---------------- inputs ---------------- *)

\* model names a BackgroundRemover is constructed with in this model
ModelNames == {"birefnet-general", "birefnet-portrait"}

\* quality strings callers pass; "ultra" is a name QUALITY_PRESETS does not hold
Qualities == {"fast", "normal", "high", "ultra"}

\* the quality of the direct calls: the default of the quality parameter
DirectQualities == {"normal"}

\* Input images.  kind: in-memory Image or a path; readable: Image.open succeeds;
\* mode: the PIL mode; face: the cascade finds at least one face in it.
Images ==
    { [id |-> "face",  kind |-> "image", readable |-> TRUE,  mode |-> "RGB",  face |-> TRUE],
      [id |-> "plain", kind |-> "image", readable |-> TRUE,  mode |-> "RGBA", face |-> FALSE],
      [id |-> "bad",   kind |-> "path",  readable |-> FALSE, mode |-> "RGB",  face |-> FALSE] }

NoArgs == [image |-> "None", quality |-> "None", auto_detect_person |-> FALSE]

\* the value None of a session slot
NoSession == [model |-> "None", serial |-> 0]

\* An image as a record of its channels; a channel is the sequence of the
\* filters applied to it since inference (the blur radii, in tenths).
NoImage == [mode |-> "None", of |-> "None", by |-> NoSession, matting |-> FALSE,
            r |-> <<>>, g |-> <<>>, b |-> <<>>, a |-> <<>>]

NoRet == [status |-> "none", error |-> "None", result |-> NoImage, is_person |-> FALSE]

NoInput == [id |-> "None", kind |-> "None", readable |-> FALSE, mode |-> "None", face |-> FALSE]

\* the thread that calls remove_background_batch
BatchThread == 1

NoBatch == [pc |-> "idle", images |-> <<>>, has_callback |-> FALSE, quality |-> "None",
            auto_detect_person |-> FALSE, i |-> 0, total |-> 0, results |-> <<>>,
            cb_log |-> <<>>, returned |-> <<>>, error |-> "None"]

\* An image handed to or made by the GeminiProcessor.  obj: which Python object
\* it is; of: the picture it started from; ops: the filters applied since, in
\* order.  Two images are pixel-identical when of, mode and ops agree.
NoGImage == [kind |-> "None", obj |-> "None", of |-> "None", mode |-> "None", ops |-> <<>>]

\* analysis_result: None, or a dict given by the keys it maps to true
NoAnalysis == [none |-> TRUE, keys |-> {}]

NoScores == [edge_quality |-> 0, transparency |-> 0, overall |-> 0]

NoGeminiCall == [op |-> "none", image |-> NoGImage, auto_enhance |-> FALSE,
                 remote_calls |-> 0, remote |-> "none", text |-> <<>>, lines |-> <<>>,
                 analysis |-> NoAnalysis, status |-> "none", result |-> NoGImage,
                 scores |-> NoScores, n_scores |-> 0]

\* a thread outside get_remover that holds no remover.  made: the object its
\* call constructed (0: none); ret: the remover its last call returned (0: none)
NoGetter == [pc |-> "idle", made |-> 0, ret |-> 0]

CardIds == 1..NumCards

\* a card id for which no ImageCard has been made yet
NoCard == [is_selected |-> FALSE, is_processed |-> FALSE, status |-> "none",
           result |-> "None"]

\* a card after card.destroy(): nothing reads it any more
DestroyedCard == [is_selected |-> FALSE, is_processed |-> FALSE, status |-> "destroyed",
                  result |-> "None"]

\* the frame of a thread that does not run _process_thread.  touched: the
\* attributes of the window and of its cards this thread has read or written
\* itself, outside a posted callback
NoWorker == [pc |-> "idle", processor |-> FALSE, cards |-> <<>>, i |-> 0,
             touched |-> {}]

ImageById(id) == CHOOSE im \in Images : im.id = id

(* ---------------- state ---------------- *)

VARIABLES
    model_name,        \* self._model_name
    session,           \* self._session
    portrait_session,  \* self._portrait_session
    lock,              \* self._lock: 0 when free, else the thread holding it
    face_cascade,      \* self._face_cascade: "None" or "loaded"
    new_session_calls, \* model name -> number of sessions new_session has returned for it
    pc,                \* thread -> its position inside remove_background
    args,              \* thread -> arguments of its current call
    is_person,         \* thread -> local is_person
    detected,          \* thread -> "not run", or how detect_person ended in the current
                       \*           call: "yes", "no", or "fault" (False from the except branch)
    use_portrait,      \* thread -> "none", or the use_portrait argument given to _get_session
    img,               \* thread -> local img (the loaded, converted input)
    ret,               \* thread -> what the current call returned or raised
    batch,             \* the frame of the remove_background_batch call of BatchThread
    gp_api_key,        \* GeminiProcessor._api_key: "None" or "key"
    gp_model,          \* GeminiProcessor._model: "None" or "configured"
    gp,                \* the frame of the last call on the GeminiProcessor
    image_cards,       \* NukkiApp.image_cards: the cards, as their ids, in list order
    card,              \* card id -> is_selected, is_processed, status label, result_image
    processing,        \* NukkiApp.processing
    process_button,    \* state of the process button: "normal" or "disabled"
    api_key,           \* NukkiApp.api_key: "" or "key"
    use_gemini,        \* NukkiApp.use_gemini (BooleanVar)
    quality_var,       \* NukkiApp.quality_var (StringVar)
    auto_detect_var,   \* NukkiApp.auto_detect_var (BooleanVar)
    worker,            \* thread -> the frame of _process_thread run by that thread
    ui_queue,          \* callbacks posted with self.after(0, ...) and not yet run
    remover_instance,  \* the global _remover_instance: 0 for None, else the number of
                       \* the BackgroundRemover it refers to
    removers_made,     \* how many BackgroundRemover objects have been constructed
    getter             \* thread -> the frame of its get_remover call, and the remover
                       \* its last call returned

\* the state of the BackgroundRemover and of its callers
core_vars == <<model_name, session, portrait_session, lock, face_cascade, new_session_calls,
               pc, args, img, is_person, detected, use_portrait, ret, batch>>

\* the state of the GeminiProcessor
gemini_vars == <<gp_api_key, gp_model, gp>>

\* the state of the application window and of its worker threads
ui_vars == <<image_cards, card, processing, process_button, api_key, use_gemini,
             quality_var, auto_detect_var, worker, ui_queue>>

\* the module global of background_remover.py and the callers of get_remover
module_vars == <<remover_instance, removers_made, getter>>

\* what the steps of the BackgroundRemover leave alone
others == <<gemini_vars, ui_vars, module_vars>>

vars == <<core_vars, gemini_vars, ui_vars, module_vars>>

Init ==
    /\ model_name \in ModelNames
    /\ session = NoSession
    /\ portrait_session = NoSession
    /\ lock = 0
    /\ face_cascade = "None"
    /\ new_session_calls = [m \in AVAILABLE_MODELS |-> 0]
    /\ pc = [t \in Threads |-> "idle"]
    /\ args = [t \in Threads |-> NoArgs]
    /\ is_person = [t \in Threads |-> FALSE]
    /\ detected = [t \in Threads |-> "not run"]
    /\ use_portrait = [t \in Threads |-> "none"]
    /\ img = [t \in Threads |-> NoInput]
    /\ ret = [t \in Threads |-> NoRet]
    /\ batch = NoBatch
    /\ gp_api_key = "None"
    /\ gp_model = "None"
    /\ gp = NoGeminiCall
    /\ image_cards = <<>>
    /\ card = [c \in CardIds |-> NoCard]
    /\ processing = FALSE
    /\ process_button = "normal"
    /\ api_key = ""
    /\ use_gemini = FALSE
    /\ quality_var = "normal"
    /\ auto_detect_var = TRUE
    /\ worker = [t \in Threads |-> NoWorker]
    /\ ui_queue = <<>>
    /\ remover_instance = 0
    /\ removers_made = 0
    /\ getter = [t \in Threads |-> NoGetter]

(* ---------------- pure helpers ---------------- *)

\* Image.open(path) / input_image.copy(), then convert('RGB') when the mode differs
LoadRGB(image) ==
    IF image.mode # "RGB" THEN [image EXCEPT !.mode = "RGB"] ELSE image

\* what can go wrong inside detect_person's try block
DetectFaults == {"none", "cvtColor", "cascade", "detectMultiScale"}

\* detect_person: len(faces) > 0, and False whenever the try block raised
DetectPerson(image, fault) ==
    IF fault # "none" THEN FALSE ELSE image.face

\* _get_face_cascade: the classifier is built and cached when the slot is None;
\* a fault before or inside the constructor leaves the slot as it was
CascadeAfter(cascade, fault) ==
    IF fault \in {"cvtColor", "cascade"} THEN cascade ELSE "loaded"

\* new_session(name): a fresh handle, told apart from every earlier one by its serial
NewSession(name) ==
    [model |-> name,
     serial |-> 1 + (IF session = NoSession THEN 0 ELSE 1)
                  + (IF portrait_session = NoSession THEN 0 ELSE 1)]

\* SlotOf with the two branches of _get_session swapped
SlotOfSwapped(portrait) == IF portrait THEN session ELSE portrait_session

\* the slot _get_session reads and fills for use_portrait
SlotOf(portrait) == IF portrait THEN portrait_session ELSE session

\* the model name _get_session hands to new_session
NameOf(portrait) == IF portrait THEN PORTRAIT_MODEL ELSE model_name

\* rembg.remove(img, session=..., alpha_matting=...): an RGBA cutout of img
Remove(image, sess, preset) ==
    [mode |-> "RGBA", of |-> image.id, by |-> sess, matting |-> preset.alpha_matting,
     r |-> <<>>, g |-> <<>>, b |-> <<>>, a |-> <<>>]

\* SmoothEdges with the filter applied to the image instead of its alpha channel
SmoothEdgesWholeImage(image, blur_radius) ==
    IF image.mode # "RGBA" THEN image
    ELSE [image EXCEPT !.r = Append(@, blur_radius), !.g = Append(@, blur_radius),
                       !.b = Append(@, blur_radius), !.a = Append(@, blur_radius)]

\* _smooth_edges: GaussianBlur(blur_radius) on the alpha channel of an RGBA image
SmoothEdges(image, blur_radius) ==
    IF image.mode # "RGBA" THEN image
    ELSE [image EXCEPT !.a = Append(@, blur_radius)]

\* lines 166-168: the blur step is taken only for a positive radius
PostProcess(image, preset) ==
    IF preset.blur_radius > 0 THEN SmoothEdges(image, preset.blur_radius) ELSE image

Raised(error) == [NoRet EXCEPT !.status = "error", !.error = error]

Returned(result, person) ==
    [NoRet EXCEPT !.status = "ok", !.result = result, !.is_person = person]

(* ---------------- remove_background, step by step ---------------- *)

\* AfterLoad with the auto_detect_person test lost: the detector always runs
AfterLoadAlwaysDetect(auto) == "detect"

\* lines 150-152: detect_person is called only when auto_detect_person is set
AfterLoad(auto) == IF auto THEN "detect" ELSE "lock"

\* lines 136-152: preset lookup, load, convert, is_person = False; what follows
\* is detect_person when auto_detect_person is set, else the lock
EnterRemove(t, image, quality, auto) ==
    /\ pc[t] = "idle"
    /\ args' = [args EXCEPT ![t] = [image |-> image.id, quality |-> quality,
                                    auto_detect_person |-> auto]]
    /\ is_person' = [is_person EXCEPT ![t] = FALSE]
    /\ detected' = [detected EXCEPT ![t] = "not run"]
    /\ use_portrait' = [use_portrait EXCEPT ![t] = "none"]
    /\ IF image.readable
       THEN /\ img' = [img EXCEPT ![t] = LoadRGB(image)]
            /\ ret' = [ret EXCEPT ![t] = NoRet]
            /\ pc' = [pc EXCEPT ![t] = AfterLoad(auto)]
       ELSE /\ img' = [img EXCEPT ![t] = NoInput]
            /\ ret' = [ret EXCEPT ![t] = Raised("LoadError")]
            /\ pc' = [pc EXCEPT ![t] = "done"]
    /\ UNCHANGED <<model_name, session, portrait_session, lock, face_cascade,
                   new_session_calls>>

\* remove_background(image, auto_detect_person=auto) called directly by thread t
Call(t) ==
    /\ batch.pc = "idle"
    /\ \E image \in Images, quality \in DirectQualities, auto \in BOOLEAN :
          EnterRemove(t, image, quality, auto)
    /\ UNCHANGED batch
    /\ UNCHANGED others

\* Detect without the try/except of detect_person: a fault leaves the call
DetectUncaught(t) ==
    /\ pc[t] = "detect"
    /\ \E fault \in DetectFaults :
          /\ fault = "cascade" => face_cascade = "None"
          /\ face_cascade' = CascadeAfter(face_cascade, fault)
          /\ is_person' = [is_person EXCEPT ![t] = DetectPerson(img[t], fault)]
          /\ detected' = [detected EXCEPT ![t] =
                             IF fault # "none" THEN "fault"
                             ELSE IF DetectPerson(img[t], fault) THEN "yes" ELSE "no"]
          /\ ret' = [ret EXCEPT ![t] = IF fault # "none" THEN Raised("DetectError") ELSE @]
          /\ pc' = [pc EXCEPT ![t] = IF fault # "none" THEN "done" ELSE "lock"]
    /\ UNCHANGED <<model_name, session, portrait_session, lock, new_session_calls,
                   args, img, use_portrait, batch>>
    /\ UNCHANGED others

\* line 152: is_person = self.detect_person(img)
Detect(t) ==
    /\ pc[t] = "detect"
    /\ \E fault \in DetectFaults :
          /\ fault = "cascade" => face_cascade = "None"
          /\ face_cascade' = CascadeAfter(face_cascade, fault)
          /\ is_person' = [is_person EXCEPT ![t] = DetectPerson(img[t], fault)]
          /\ detected' = [detected EXCEPT ![t] =
                             IF fault # "none" THEN "fault"
                             ELSE IF DetectPerson(img[t], fault) THEN "yes" ELSE "no"]
    /\ pc' = [pc EXCEPT ![t] = "lock"]
    /\ UNCHANGED <<model_name, session, portrait_session, lock, new_session_calls,
                   args, img, use_portrait, ret, batch>>
    /\ UNCHANGED others

\* Acquire without the lock: the with statement left out
AcquireUnlocked(t) ==
    /\ pc[t] = "lock"
    /\ lock' = t
    /\ pc' = [pc EXCEPT ![t] = "session"]
    /\ UNCHANGED <<model_name, session, portrait_session, face_cascade,
                   new_session_calls, args, img, is_person, detected,
                   use_portrait, ret, batch>>
    /\ UNCHANGED others

\* line 155: with self._lock (blocks while another thread holds it)
Acquire(t) ==
    /\ pc[t] = "lock"
    /\ lock = 0
    /\ lock' = t
    /\ pc' = [pc EXCEPT ![t] = "session"]
    /\ UNCHANGED <<model_name, session, portrait_session, face_cascade,
                   new_session_calls, args, img, is_person, detected,
                   use_portrait, ret, batch>>
    /\ UNCHANGED others

\* line 158 with lines 66-75: self._get_session(use_portrait=is_person), the
\* slot already filled
SessionCached(t) ==
    /\ pc[t] = "session"
    /\ SlotOf(is_person[t]) # NoSession
    /\ use_portrait' = [use_portrait EXCEPT ![t] = IF is_person[t] THEN "portrait" ELSE "general"]
    /\ pc' = [pc EXCEPT ![t] = "infer"]
    /\ UNCHANGED <<model_name, session, portrait_session, lock, face_cascade,
                   new_session_calls, args, img, is_person, detected, ret, batch>>
    /\ UNCHANGED others

\* lines 70 and 74: the slot is None and new_session returns a handle
SessionCreate(t) ==
    /\ pc[t] = "session"
    /\ SlotOf(is_person[t]) = NoSession
    /\ use_portrait' = [use_portrait EXCEPT ![t] = IF is_person[t] THEN "portrait" ELSE "general"]
    /\ IF is_person[t]
       THEN /\ portrait_session' = NewSession(NameOf(TRUE))
            /\ UNCHANGED session
       ELSE /\ session' = NewSession(NameOf(FALSE))
            /\ UNCHANGED portrait_session
    /\ new_session_calls' = [new_session_calls EXCEPT ![NameOf(is_person[t])] = @ + 1]
    /\ pc' = [pc EXCEPT ![t] = "infer"]
    /\ UNCHANGED <<model_name, lock, face_cascade, args, img, is_person,
                   detected, ret, batch>>
    /\ UNCHANGED others

\* SessionFail with acquire()/release() in place of the with statement: the
\* exception skips the release
SessionFailKeepsLock(t) ==
    /\ pc[t] = "session"
    /\ SlotOf(is_person[t]) = NoSession
    /\ use_portrait' = [use_portrait EXCEPT ![t] = IF is_person[t] THEN "portrait" ELSE "general"]
    /\ ret' = [ret EXCEPT ![t] = Raised("ModelLoadError")]
    /\ pc' = [pc EXCEPT ![t] = "done"]
    /\ UNCHANGED <<model_name, session, portrait_session, lock, face_cascade,
                   new_session_calls, args, img, is_person, detected, batch>>
    /\ UNCHANGED others

\* lines 70 and 74: the slot is None and new_session raises; the assignment is
\* not reached and the with statement releases the lock on the way out
SessionFail(t) ==
    /\ pc[t] = "session"
    /\ SlotOf(is_person[t]) = NoSession
    /\ use_portrait' = [use_portrait EXCEPT ![t] = IF is_person[t] THEN "portrait" ELSE "general"]
    /\ lock' = 0
    /\ ret' = [ret EXCEPT ![t] = Raised("ModelLoadError")]
    /\ pc' = [pc EXCEPT ![t] = "done"]
    /\ UNCHANGED <<model_name, session, portrait_session, face_cascade,
                   new_session_calls, args, img, is_person, detected, batch>>
    /\ UNCHANGED others

\* lines 156-170: remove() returns, the lock is released, the blur step, return
InferOk(t) ==
    /\ pc[t] = "infer"
    /\ lock' = 0
    /\ ret' = [ret EXCEPT ![t] =
                 Returned(PostProcess(Remove(img[t], SlotOf(use_portrait[t] = "portrait"),
                                             PresetOf(args[t].quality)),
                                      PresetOf(args[t].quality)),
                          is_person[t])]
    /\ pc' = [pc EXCEPT ![t] = "done"]
    /\ UNCHANGED <<model_name, session, portrait_session, face_cascade,
                   new_session_calls, args, img, is_person, detected,
                   use_portrait, batch>>
    /\ UNCHANGED others

\* lines 156-164: remove() raises; the with statement releases the lock
InferFail(t) ==
    /\ pc[t] = "infer"
    /\ lock' = 0
    /\ ret' = [ret EXCEPT ![t] = Raised("InferenceError")]
    /\ pc' = [pc EXCEPT ![t] = "done"]
    /\ UNCHANGED <<model_name, session, portrait_session, face_cascade,
                   new_session_calls, args, img, is_person, detected,
                   use_portrait, batch>>
    /\ UNCHANGED others

\* the frame of remove_background is popped
ClearFrame(t) ==
    /\ pc' = [pc EXCEPT ![t] = "idle"]
    /\ args' = [args EXCEPT ![t] = NoArgs]
    /\ img' = [img EXCEPT ![t] = NoInput]
    /\ is_person' = [is_person EXCEPT ![t] = FALSE]
    /\ detected' = [detected EXCEPT ![t] = "not run"]
    /\ use_portrait' = [use_portrait EXCEPT ![t] = "none"]
    /\ ret' = [ret EXCEPT ![t] = NoRet]

\* the direct caller takes the result (or the exception)
Return(t) ==
    /\ pc[t] = "done"
    /\ batch.pc = "idle"
    /\ ClearFrame(t)
    /\ UNCHANGED <<model_name, session, portrait_session, lock, face_cascade,
                   new_session_calls, batch>>
    /\ UNCHANGED others

\* the steps a thread takes inside remove_background
Step(t) ==
    \/ Detect(t)
    \/ Acquire(t)
    \/ SessionCached(t)
    \/ SessionCreate(t)
    \/ SessionFail(t)
    \/ InferOk(t)
    \/ InferFail(t)

\* threads calling remove_background concurrently on one BackgroundRemover
Next ==
    \E t \in Threads : Call(t) \/ Step(t) \/ Return(t)

Spec == Init /\ [][Next]_vars

(* ---------------- remove_background_batch ---------------- *)

\* the input lists of the batch calls: every list of at most MaxBatch images
BatchInputs == UNION { [1..n -> Images] : n \in 0..MaxBatch }

\* lines 214-215: results = [], total = len(input_images)
BatchStart ==
    /\ batch.pc = "idle"
    /\ pc[BatchThread] = "idle"
    /\ \E images \in BatchInputs, cb \in BOOLEAN, quality \in Qualities, auto \in BOOLEAN :
          batch' = [NoBatch EXCEPT !.pc = "loop", !.images = images, !.has_callback = cb,
                                   !.quality = quality, !.auto_detect_person = auto,
                                   !.total = Len(images)]
    /\ UNCHANGED <<model_name, session, portrait_session, lock, face_cascade,
                   new_session_calls, pc, args, img, is_person, detected,
                   use_portrait, ret>>
    /\ UNCHANGED others

\* lines 217-218: the next item of enumerate(input_images) enters remove_background
BatchItem ==
    /\ batch.pc = "loop"
    /\ batch.i < batch.total
    /\ EnterRemove(BatchThread, batch.images[batch.i + 1], batch.quality,
                   batch.auto_detect_person)
    /\ batch' = [batch EXCEPT !.pc = "item"]
    /\ UNCHANGED others

\* BatchAppend with results.insert(0, ...) in place of results.append(...)
BatchAppendFront ==
    /\ batch.pc = "item"
    /\ pc[BatchThread] = "done"
    /\ ret[BatchThread].status = "ok"
    /\ batch' = [batch EXCEPT
                   !.pc = "callback",
                   !.results = <<[result |-> ret[BatchThread].result,
                                  is_person |-> ret[BatchThread].is_person]>> \o @]
    /\ ClearFrame(BatchThread)
    /\ UNCHANGED <<model_name, session, portrait_session, lock, face_cascade,
                   new_session_calls>>
    /\ UNCHANGED others

\* lines 218-219: the call returned; results.append((result, is_person))
BatchAppend ==
    /\ batch.pc = "item"
    /\ pc[BatchThread] = "done"
    /\ ret[BatchThread].status = "ok"
    /\ batch' = [batch EXCEPT
                   !.pc = "callback",
                   !.results = Append(@, [result |-> ret[BatchThread].result,
                                          is_person |-> ret[BatchThread].is_person])]
    /\ ClearFrame(BatchThread)
    /\ UNCHANGED <<model_name, session, portrait_session, lock, face_cascade,
                   new_session_calls>>
    /\ UNCHANGED others

\* BatchCallback reporting the loop index i instead of i + 1
BatchCallbackOffByOne ==
    /\ batch.pc = "callback"
    /\ batch' = [batch EXCEPT
                   !.pc = "loop",
                   !.cb_log = IF batch.has_callback
                              THEN Append(@, <<batch.i, batch.total>>) ELSE @,
                   !.i = @ + 1]
    /\ UNCHANGED <<model_name, session, portrait_session, lock, face_cascade,
                   new_session_calls, pc, args, img, is_person, detected,
                   use_portrait, ret>>
    /\ UNCHANGED others

\* lines 221-222: if progress_callback: progress_callback(i + 1, total); then
\* enumerate moves on to the next index
BatchCallback ==
    /\ batch.pc = "callback"
    /\ batch' = [batch EXCEPT
                   !.pc = "loop",
                   !.cb_log = IF batch.has_callback
                              THEN Append(@, <<batch.i + 1, batch.total>>) ELSE @,
                   !.i = @ + 1]
    /\ UNCHANGED <<model_name, session, portrait_session, lock, face_cascade,
                   new_session_calls, pc, args, img, is_person, detected,
                   use_portrait, ret>>
    /\ UNCHANGED others

\* BatchRaise with the call wrapped in try/except: the item is skipped and
\* the loop goes on
BatchSkipFailed ==
    /\ batch.pc = "item"
    /\ pc[BatchThread] = "done"
    /\ ret[BatchThread].status = "error"
    /\ batch' = [batch EXCEPT !.pc = "loop", !.i = @ + 1]
    /\ ClearFrame(BatchThread)
    /\ UNCHANGED <<model_name, session, portrait_session, lock, face_cascade,
                   new_session_calls>>
    /\ UNCHANGED others

\* line 218: the call raised; nothing in the loop catches it
BatchRaise ==
    /\ batch.pc = "item"
    /\ pc[BatchThread] = "done"
    /\ ret[BatchThread].status = "error"
    /\ batch' = [batch EXCEPT !.pc = "raised", !.error = ret[BatchThread].error]
    /\ ClearFrame(BatchThread)
    /\ UNCHANGED <<model_name, session, portrait_session, lock, face_cascade,
                   new_session_calls>>
    /\ UNCHANGED others

\* line 224: return results
BatchReturn ==
    /\ batch.pc = "loop"
    /\ batch.i = batch.total
    /\ batch' = [batch EXCEPT !.pc = "returned", !.returned = batch.results]
    /\ UNCHANGED <<model_name, session, portrait_session, lock, face_cascade,
                   new_session_calls, pc, args, img, is_person, detected,
                   use_portrait, ret>>
    /\ UNCHANGED others

\* the caller of the batch is done with the list (or the exception)
BatchDone ==
    /\ batch.pc \in {"returned", "raised"}
    /\ batch' = NoBatch
    /\ UNCHANGED <<model_name, session, portrait_session, lock, face_cascade,
                   new_session_calls, pc, args, img, is_person, detected,
                   use_portrait, ret>>
    /\ UNCHANGED others

\* one thread running remove_background_batch calls, one after another
NextBatch ==
    \/ BatchStart
    \/ BatchItem
    \/ Step(BatchThread)
    \/ BatchAppend
    \/ BatchCallback
    \/ BatchRaise
    \/ BatchReturn
    \/ BatchDone

SpecBatch == Init /\ [][NextBatch]_vars


(* ---------------- GeminiProcessor: texts ---------------- *)

\* A response text of _analyze_for_enhancement is a sequence of tokens: the
\* braces, the comma, a blank, three object members ("h" is "has_halo": true,
\* "r" is "edge_rough": true, "n" is "needs_smoothing": true) and "x", any
\* text that is not JSON.
Tokens == {"{", "}", ",", " ", "h", "r", "n", "x"}

Members == {"h", "r", "n"}

MemberKey(tok) ==
    IF tok = "h" THEN "has_halo" ELSE IF tok = "r" THEN "edge_rough" ELSE "needs_smoothing"

Texts == UNION { [1..n -> Tokens] : n \in 0..MaxText }

\* str.strip()
RECURSIVE LStrip(_)
LStrip(s) == IF s # <<>> /\ Head(s) = " " THEN LStrip(Tail(s)) ELSE s

RECURSIVE RStrip(_)
RStrip(s) == IF s # <<>> /\ s[Len(s)] = " " THEN RStrip(SubSeq(s, 1, Len(s) - 1)) ELSE s

Strip(s) == RStrip(LStrip(s))

\* tok in text
Contains(s, tok) == \E i \in 1..Len(s) : s[i] = tok

\* text.find(tok), as a 1-based position (0 when absent)
Find(s, tok) ==
    IF Contains(s, tok)
    THEN CHOOSE i \in 1..Len(s) : s[i] = tok /\ \A j \in 1..(i - 1) : s[j] # tok
    ELSE 0

\* text.rfind(tok), as a 1-based position (0 when absent)
RFind(s, tok) ==
    IF Contains(s, tok)
    THEN CHOOSE i \in 1..Len(s) : s[i] = tok /\ \A j \in (i + 1)..Len(s) : s[j] # tok
    ELSE 0

\* line 135: text[text.find('{'):text.rfind('}')+1]
JsonSpan(text) ==
    SubSeq(text, Find(text, "{"), RFind(text, "}"))

NoBlanks(s) == SelectSeq(s, LAMBDA c : c # " ")

\* json.loads(json_str) returns: the text is one object, its members separated
\* by commas, blanks allowed between the tokens
JsonDecodes(span) ==
    LET s == NoBlanks(span)
        n == Len(s)
    IN  /\ n >= 2
        /\ s[1] = "{"
        /\ s[n] = "}"
        /\ \/ n = 2
           \/ /\ n % 2 = 1
              /\ \A i \in 2..(n - 1) :
                    IF i % 2 = 0 THEN s[i] \in Members ELSE s[i] = ","

\* the dict json.loads returns, as the set of its keys (every member is key: true)
JsonLoads(span) ==
    LET s == NoBlanks(span)
    IN  [none |-> FALSE,
         keys |-> { MemberKey(s[i]) : i \in { j \in 2..(Len(s) - 1) : j % 2 = 0 } }]

EmptyDict == [none |-> FALSE, keys |-> {}]

\* ParseAnalysis without the inner try/except: what does not decode is taken
\* as a verdict with every flag set
ParseAnalysisNoFallback(remote, text) ==
    IF remote = "no text" THEN EmptyDict
    ELSE IF /\ Contains(text, "{") /\ Contains(text, "}")
            /\ JsonDecodes(JsonSpan(Strip(text)))
    THEN JsonLoads(JsonSpan(Strip(text)))
    ELSE [none |-> FALSE, keys |-> {"has_halo", "edge_rough", "needs_smoothing"}]

\* lines 129-140: the dict _analyze_for_enhancement returns once generate_content
\* has returned.  remote = "no text": reading response.text raises.
ParseAnalysis(remote, text) ==
    IF remote = "no text" THEN EmptyDict
    ELSE LET t == Strip(text)
         IN  IF Contains(t, "{") /\ Contains(t, "}")
             THEN IF JsonDecodes(JsonSpan(t)) THEN JsonLoads(JsonSpan(t)) ELSE EmptyDict
             ELSE EmptyDict

\* analysis.get(key, False), and False for None or {} (the `if analysis:` test)
Flag(analysis, key) == ~analysis.none /\ key \in analysis.keys

(* ---------------- GeminiProcessor: images ---------------- *)

\* the images handed to enhance_edges: an RGBA cutout, an RGB photo, and the
\* path of a saved RGBA file
GImages ==
    { [kind |-> "image", obj |-> "caller", of |-> "cutout", mode |-> "RGBA", ops |-> <<>>],
      [kind |-> "image", obj |-> "caller", of |-> "photo",  mode |-> "RGB",  ops |-> <<>>],
      [kind |-> "path",  obj |-> "file",   of |-> "saved",  mode |-> "RGBA", ops |-> <<>>] }

\* LoadImage without the copy: img = image
LoadImageNoCopy(image) ==
    IF image.kind = "path" THEN [image EXCEPT !.kind = "image", !.obj = "opened"]
    ELSE image

\* lines 97-100: Image.open(image) for a path, image.copy() otherwise
LoadImage(image) ==
    IF image.kind = "path" THEN [image EXCEPT !.kind = "image", !.obj = "opened"]
    ELSE [image EXCEPT !.obj = "copy"]

\* one PIL filter on the alpha band, or an enhancer on the whole image: a new image
Apply(image, op) == [image EXCEPT !.obj = "enhanced", !.ops = Append(@, op)]

\* ApplyEdgeEnhancement with the tests of has_halo and edge_rough exchanged
ApplyEdgeEnhancementFlagsSwapped(image, analysis) ==
    IF image.mode # "RGBA" THEN image
    ELSE LET a1 == Apply(image, "alpha:SMOOTH")
             a2 == IF Flag(analysis, "edge_rough") THEN Apply(a1, "alpha:MinFilter(3)") ELSE a1
             a3 == IF Flag(analysis, "has_halo") THEN Apply(a2, "alpha:GaussianBlur(0.5)") ELSE a2
         IN  Apply(a3, "image:Sharpness(1.1)")

\* lines 142-177: _apply_edge_enhancement
ApplyEdgeEnhancement(image, analysis) ==
    IF image.mode # "RGBA" THEN image
    ELSE LET a1 == Apply(image, "alpha:SMOOTH")
             a2 == IF Flag(analysis, "has_halo") THEN Apply(a1, "alpha:MinFilter(3)") ELSE a1
             a3 == IF Flag(analysis, "edge_rough") THEN Apply(a2, "alpha:GaussianBlur(0.5)") ELSE a2
         IN  Apply(a3, "image:Sharpness(1.1)")

(* ---------------- GeminiProcessor: operations ---------------- *)

\* lines 29-42: set_api_key -> _configure
SetApiKey ==
    /\ gp.op = "none"
    /\ gp_api_key' = "key"
    /\ gp_model' = "configured"
    /\ gp' = [NoGeminiCall EXCEPT !.op = "set_api_key", !.status = "ok"]
    /\ UNCHANGED <<core_vars, ui_vars, module_vars>>

\* the frame of an enhance_edges call that has ended
EnhanceFrame(image, auto, calls, remote, text, analysis, result) ==
    [NoGeminiCall EXCEPT !.op = "enhance_edges", !.image = image, !.auto_enhance = auto,
                         !.remote_calls = calls, !.remote = remote, !.text = text,
                         !.analysis = analysis, !.status = "ok", !.result = result]

\* EnhanceLocal with the is_configured test lost: the remote call is made anyway
\* and fails on self._model being None, outside any try
EnhanceLocalUnguarded(image, auto) ==
    IF ~auto THEN EnhanceFrame(image, auto, 0, "none", <<>>, NoAnalysis, LoadImage(image))
    ELSE [EnhanceFrame(image, auto, 1, "raised", <<>>, NoAnalysis, NoGImage)
            EXCEPT !.status = "raised"]

\* lines 96-116 when no remote call is made: auto_enhance is false, or no
\* credential is configured
EnhanceLocal(image, auto) ==
    IF ~auto THEN EnhanceFrame(image, auto, 0, "none", <<>>, NoAnalysis, LoadImage(image))
    ELSE EnhanceFrame(image, auto, 0, "none", <<>>, NoAnalysis,
                      ApplyEdgeEnhancement(LoadImage(image), NoAnalysis))

\* EnhanceRemote without the try/except around _analyze_for_enhancement
EnhanceRemoteUncaught(image, remote, text) ==
    IF remote = "raised"
    THEN [EnhanceFrame(image, TRUE, 1, remote, <<>>, NoAnalysis, NoGImage)
            EXCEPT !.status = "raised"]
    ELSE EnhanceFrame(image, TRUE, 1, remote, text, ParseAnalysis(remote, text),
                      ApplyEdgeEnhancement(LoadImage(image), ParseAnalysis(remote, text)))

\* lines 105-116 with a credential: generate_content raises (caught at line 110,
\* analysis_result stays None) or returns a response
EnhanceRemote(image, remote, text) ==
    IF remote = "raised"
    THEN EnhanceFrame(image, TRUE, 1, remote, <<>>, NoAnalysis,
                      ApplyEdgeEnhancement(LoadImage(image), NoAnalysis))
    ELSE EnhanceFrame(image, TRUE, 1, remote, text, ParseAnalysis(remote, text),
                      ApplyEdgeEnhancement(LoadImage(image), ParseAnalysis(remote, text)))

\* enhance_edges(image, auto_enhance) without a remote call
EnhanceEdgesLocal ==
    /\ gp.op = "none"
    /\ \E image \in GImages, auto \in BOOLEAN :
          /\ ~auto \/ gp_model = "None"
          /\ gp' = EnhanceLocal(image, auto)
    /\ UNCHANGED <<gp_api_key, gp_model, core_vars, ui_vars, module_vars>>

\* enhance_edges(image, True) with a credential: the remote call is made
EnhanceEdgesRemote ==
    /\ gp.op = "none"
    /\ gp_model = "configured"
    /\ \E image \in GImages :
          \/ \E remote \in {"raised", "no text"} : gp' = EnhanceRemote(image, remote, <<>>)
          \/ \E text \in Texts : gp' = EnhanceRemote(image, "text", text)
    /\ UNCHANGED <<gp_api_key, gp_model, core_vars, ui_vars, module_vars>>

(* ---------------- GeminiProcessor: get_quality_score ---------------- *)

\* A response text of get_quality_score is a sequence of lines, a line a
\* sequence of tokens: "E", "T", "O" are the three labels the code looks for,
\* "8", "1", "0" are digits, "/" is any other character, and "sup2" is the
\* superscript two, for which str.isdigit is true and int() raises.
Labels == {<<>>, <<"E">>, <<"T">>, <<"O">>}

ScoreBodies == {<<>>, <<"8">>, <<"1", "0">>, <<"8", "/", "1", "0">>, <<"sup2">>}

ScoreLines == { l \o b : l \in Labels, b \in ScoreBodies }

ScoreTexts == UNION { [1..n -> ScoreLines] : n \in 0..MaxLines }

\* filter(str.isdigit, line)
DigitsOf(line) == SelectSeq(line, LAMBDA c : c \in {"8", "1", "0", "sup2"})

\* int(...) raises ValueError
IntRaises(digits) == Contains(digits, "sup2")

DigitValue(c) == IF c = "8" THEN 8 ELSE IF c = "1" THEN 1 ELSE 0

\* int(''.join(digits) or '0')
RECURSIVE IntOf(_)
IntOf(digits) ==
    IF digits = <<>> THEN 0
    ELSE 10 * IntOf(SubSeq(digits, 1, Len(digits) - 1)) + DigitValue(digits[Len(digits)])

\* the key the if/elif chain of lines 212-217 assigns for a line ("none": no label)
KeyOfLine(line) ==
    IF Contains(line, "E") THEN "edge_quality"
    ELSE IF Contains(line, "T") THEN "transparency"
    ELSE IF Contains(line, "O") THEN "overall"
    ELSE "none"

\* lines 210-223: the loop over the lines, then the dict returned (a key never
\* assigned reads 0)
RECURSIVE ParseScores(_, _)
ParseScores(lines, scores) ==
    IF lines = <<>> THEN scores
    ELSE LET line == Head(lines)
             key  == KeyOfLine(line)
             v    == IntOf(DigitsOf(line))
         IN  ParseScores(Tail(lines),
                 IF key = "edge_quality" THEN [scores EXCEPT !.edge_quality = v]
                 ELSE IF key = "transparency" THEN [scores EXCEPT !.transparency = v]
                 ELSE IF key = "overall" THEN [scores EXCEPT !.overall = v]
                 ELSE scores)

\* some int() of the loop raises: the except branch of line 224 returns zeros
ParseRaises(lines) ==
    \E i \in 1..Len(lines) : KeyOfLine(lines[i]) # "none" /\ IntRaises(DigitsOf(lines[i]))

\* lines 207-225
ScoresOf(remote, lines) ==
    IF remote = "no text" \/ ParseRaises(lines) THEN NoScores
    ELSE ParseScores(lines, NoScores)

\* lines 179-225: get_quality_score
GetQualityScore ==
    /\ gp.op = "none"
    /\ \/ /\ gp_model = "None"
          /\ gp' = [NoGeminiCall EXCEPT !.op = "get_quality_score", !.status = "raised"]
       \/ /\ gp_model = "configured"
          /\ \/ gp' = [NoGeminiCall EXCEPT !.op = "get_quality_score", !.remote_calls = 1,
                                           !.remote = "raised", !.status = "raised"]
             \/ gp' = [NoGeminiCall EXCEPT !.op = "get_quality_score", !.remote_calls = 1,
                                           !.remote = "no text", !.status = "ok",
                                           !.scores = ScoresOf("no text", <<>>),
                                           !.n_scores = 3]
             \/ \E lines \in ScoreTexts :
                   gp' = [NoGeminiCall EXCEPT !.op = "get_quality_score", !.remote_calls = 1,
                                              !.remote = "text", !.lines = lines,
                                              !.status = "ok",
                                              !.scores = ScoresOf("text", lines),
                                              !.n_scores = 3]
    /\ UNCHANGED <<gp_api_key, gp_model, core_vars, ui_vars, module_vars>>

\* the caller has taken what the call returned or raised
GeminiReturn ==
    /\ gp.op # "none"
    /\ gp' = NoGeminiCall
    /\ UNCHANGED <<gp_api_key, gp_model, core_vars, ui_vars, module_vars>>

\* calls on one GeminiProcessor, one after another
NextGemini ==
    \/ GeminiReturn
    \/ SetApiKey
    \/ EnhanceEdgesLocal
    \/ EnhanceEdgesRemote
    \/ GetQualityScore

\* get_remover() builds the BackgroundRemover with the default model name
InitDefault == Init /\ model_name = "birefnet-general"

SpecGemini == InitDefault /\ [][NextGemini]_vars

(* ---------------- get_remover (background_remover.py) ---------------- *)

\* line 259: a thread enters get_remover and tests `_remover_instance is None`
GetRemoverTest(t) ==
    /\ getter[t].pc = "idle"
    /\ getter' = [getter EXCEPT ![t].pc = IF remover_instance = 0 THEN "construct"
                                          ELSE "return",
                                ![t].made = 0]
    /\ UNCHANGED <<remover_instance, removers_made>>
    /\ UNCHANGED <<core_vars, gemini_vars, ui_vars>>

\* line 260, right-hand side: BackgroundRemover() makes a new object
GetRemoverConstruct(t) ==
    /\ getter[t].pc = "construct"
    /\ removers_made' = removers_made + 1
    /\ getter' = [getter EXCEPT ![t].pc = "assign", ![t].made = removers_made + 1]
    /\ UNCHANGED remover_instance
    /\ UNCHANGED <<core_vars, gemini_vars, ui_vars>>

\* line 260, the store: _remover_instance = <the new object>
GetRemoverAssign(t) ==
    /\ getter[t].pc = "assign"
    /\ remover_instance' = getter[t].made
    /\ getter' = [getter EXCEPT ![t].pc = "return"]
    /\ UNCHANGED removers_made
    /\ UNCHANGED <<core_vars, gemini_vars, ui_vars>>

\* line 261: return _remover_instance, the global as it is now
GetRemoverReturn(t) ==
    /\ getter[t].pc = "return"
    /\ getter' = [getter EXCEPT ![t].pc = "idle", ![t].ret = remover_instance]
    /\ UNCHANGED <<remover_instance, removers_made>>
    /\ UNCHANGED <<core_vars, gemini_vars, ui_vars>>

\* lines 256-261 run by thread t with no other thread inside get_remover
GetRemoverAlone(t) ==
    /\ remover_instance' = IF remover_instance = 0 THEN removers_made + 1
                           ELSE remover_instance
    /\ removers_made' = IF remover_instance = 0 THEN removers_made + 1 ELSE removers_made
    /\ getter' = [getter EXCEPT ![t].ret = remover_instance',
                                ![t].made = IF remover_instance = 0
                                            THEN removers_made + 1 ELSE 0]

\* threads calling get_remover, each any number of times
NextGetRemover ==
    \E t \in Threads :
       \/ GetRemoverTest(t)
       \/ GetRemoverConstruct(t)
       \/ GetRemoverAssign(t)
       \/ GetRemoverReturn(t)

SpecGetRemover == InitDefault /\ [][NextGetRemover]_vars

(* ---------------- the application window (ui/app_window.py) ---------------- *)

\* the file behind each card, as an input of remove_background
CardImage(c) ==
    LET id == IF c % 3 = 1 THEN "bad" ELSE IF c % 3 = 2 THEN "face" ELSE "plain"
    IN  [ImageById(id) EXCEPT !.kind = "path"]

\* a callback posted with self.after(0, ...)
Event(kind, c, status, result) ==
    [kind |-> kind, card |-> c, status |-> status, result |-> result]

\* [c for c in self.image_cards if c.is_selected.get() and not c.is_processed]
SelectedUnprocessed ==
    SelectSeq(image_cards, LAMBDA c : card[c].is_selected /\ ~card[c].is_processed)

\* the threads in which _process_thread is running
Running == { t \in Threads : worker[t].pc # "idle" }

\* the thread object the next threading.Thread(...) gets
FreeThread == CHOOSE t \in Threads \ Running : \A u \in Threads \ Running : t <= u

ui_options == <<api_key, use_gemini,  quality_var, auto_detect_var>>

\* card c is in self.image_cards
Listed(c) == \E k \in 1..Len(image_cards) : image_cards[k] = c

\* lines 524-548: _add_images with one file; the new card is selected and waits
AddImages ==
    /\ \E c \in CardIds : card[c].status = "none"
    /\ LET c == CHOOSE c \in CardIds :
                    card[c].status = "none" /\ \A d \in 1..(c - 1) : card[d].status # "none"
       IN  /\ image_cards' = Append(image_cards, c)
           /\ card' = [card EXCEPT ![c] = [is_selected |-> TRUE, is_processed |-> FALSE,
                                           status |-> "pending", result |-> "None"]]
    /\ UNCHANGED <<processing, process_button, ui_options, worker, ui_queue>>
    /\ UNCHANGED <<core_vars, gemini_vars, module_vars>>

\* lines 550-554: _toggle_select_all: every listed card takes the value the
\* user has just given the select-all check box
ToggleSelectAll ==
    /\ \E select_all \in BOOLEAN :
          card' = [c \in CardIds |->
                     IF Listed(c) THEN [card[c] EXCEPT !.is_selected = select_all]
                     ELSE card[c]]
    /\ UNCHANGED <<image_cards, processing, process_button, ui_options, worker, ui_queue>>
    /\ UNCHANGED <<core_vars, gemini_vars, module_vars>>

\* DeleteSelected without the test of self.processing
DeleteSelectedUnguarded ==
    /\ \E k \in 1..Len(image_cards) : card[image_cards[k]].is_selected
    /\ image_cards' = SelectSeq(image_cards, LAMBDA c : ~card[c].is_selected)
    /\ card' = [c \in CardIds |->
                  IF Listed(c) /\ card[c].is_selected THEN DestroyedCard ELSE card[c]]
    /\ UNCHANGED <<processing, process_button, ui_options, worker, ui_queue>>
    /\ UNCHANGED <<core_vars, gemini_vars, module_vars>>

\* lines 556-580: _delete_selected.  During a run it only warns; otherwise the
\* selected cards are destroyed and taken off the list.  When the list gets
\* empty _clear_all (768-777, called from here only) follows: it finds the
\* flag unset and no card left to destroy.
DeleteSelected ==
    /\ \E k \in 1..Len(image_cards) : card[image_cards[k]].is_selected
    /\ IF processing
       THEN UNCHANGED <<image_cards, card>>
       ELSE /\ image_cards' = SelectSeq(image_cards, LAMBDA c : ~card[c].is_selected)
            /\ card' = [c \in CardIds |->
                          IF Listed(c) /\ card[c].is_selected THEN DestroyedCard
                          ELSE card[c]]
    /\ UNCHANGED <<processing, process_button, ui_options, worker, ui_queue>>
    /\ UNCHANGED <<core_vars, gemini_vars, module_vars>>

\* the two option switches (the quality menu is left at its default, "normal")
SetOption ==
    /\ \/ auto_detect_var' = ~auto_detect_var /\ UNCHANGED use_gemini
       \/ use_gemini' = ~use_gemini /\ UNCHANGED auto_detect_var
    /\ UNCHANGED <<image_cards, card, processing, process_button, api_key,
                   quality_var, worker, ui_queue>>
    /\ UNCHANGED <<core_vars, gemini_vars, module_vars>>

\* lines 844-866: _show_api_dialog, with a key that passes _validate_api_key
ShowApiDialog ==
    /\ api_key = ""
    /\ api_key' = "key"
    /\ UNCHANGED <<image_cards, card, processing, process_button, use_gemini,
                   quality_var, auto_detect_var, worker, ui_queue>>
    /\ UNCHANGED <<core_vars, gemini_vars, module_vars>>

\* lines 671-676: the flag, the button, and the new thread
StartRun ==
    /\ Threads \ Running # {}
    /\ processing' = TRUE
    /\ process_button' = "disabled"
    /\ worker' = [worker EXCEPT ![FreeThread] = [NoWorker EXCEPT !.pc = "setup"]]
    /\ UNCHANGED <<image_cards, card, ui_options, ui_queue>>
    /\ UNCHANGED <<core_vars, gemini_vars, module_vars>>

\* ProcessImages without the test of self.processing
ProcessImagesUnguarded ==
    /\ SelectedUnprocessed # <<>>
    /\ ~(use_gemini /\ api_key = "")
    /\ StartRun

\* lines 653-676: a click on the process button that starts a run.  The clicks
\* that return early (nothing to process, a run in progress, no API key for
\* Gemini) change nothing; the last of them opens the dialog of ShowApiDialog.
ProcessImages ==
    /\ SelectedUnprocessed # <<>>
    /\ ~processing
    /\ ~(use_gemini /\ api_key = "")
    /\ StartRun

\* lines 680-684: remover and processor are fetched; use_gemini and api_key are
\* read in the worker thread; set_api_key configures the shared processor
WorkerSetup(t) ==
    /\ worker[t].pc = "setup"
    /\ GetRemoverAlone(t)
    /\ worker' = [worker EXCEPT ![t].pc = "collect",
                                ![t].processor = use_gemini,
                                ![t].touched = @ \cup {"use_gemini", "api_key"}]
    /\ IF use_gemini /\ api_key # ""
       THEN gp_api_key' = "key" /\ gp_model' = "configured"
       ELSE UNCHANGED <<gp_api_key, gp_model>>
    /\ UNCHANGED <<image_cards, card, processing, process_button, ui_options,
                   ui_queue>>
    /\ UNCHANGED <<core_vars, gp>>

\* lines 683-684: set_api_key raises (genai.configure, GenerativeModel): nothing
\* catches it in _process_thread, the thread ends
WorkerSetupRaises(t) ==
    /\ worker[t].pc = "setup"
    /\ use_gemini /\ api_key # ""
    /\ worker' = [worker EXCEPT ![t] = NoWorker]
    /\ GetRemoverAlone(t)
    /\ UNCHANGED <<image_cards, card, processing, process_button, ui_options,
                   ui_queue>>
    /\ UNCHANGED <<core_vars, gemini_vars>>

\* lines 687-688: cards_to_process, computed in the worker thread
WorkerCollect(t) ==
    /\ worker[t].pc = "collect"
    /\ worker' = [worker EXCEPT ![t].pc = "loop",
                                ![t].cards = SelectedUnprocessed,
                                ![t].i = 0,
                                ![t].touched = @ \cup {"image_cards", "is_selected",
                                                       "is_processed"}]
    /\ UNCHANGED <<image_cards, card, processing, process_button, ui_options,
                   ui_queue>>
    /\ UNCHANGED <<core_vars, gemini_vars, module_vars>>

\* lines 690-704: the next card: set_status is posted (and _update_status, which
\* only rewrites the text of the status line and is not kept), the options are
\* read in the worker thread, remove_background is entered
WorkerItem(t) ==
    /\ worker[t].pc = "loop"
    /\ worker[t].i < Len(worker[t].cards)
    /\ LET c == worker[t].cards[worker[t].i + 1]
       IN  /\ ui_queue' = Append(ui_queue, Event("set_status", c, "processing", "None"))
           /\ EnterRemove(t, CardImage(c), quality_var, auto_detect_var)
    /\ worker' = [worker EXCEPT ![t].pc = "remove",
                                ![t].touched = @ \cup {"quality_var", "auto_detect_var"}]
    /\ UNCHANGED <<image_cards, card, processing, process_button, ui_options>>
    /\ UNCHANGED <<batch, gemini_vars, module_vars>>

\* remove_background runs inside the worker thread
WorkerRemove(t) ==
    /\ worker[t].pc = "remove"
    /\ Step(t)

\* the callbacks posted once remove_background has returned (lines 707-721)
AfterRemove(t, c) ==
    (IF ret[t].is_person THEN <<Event("set_status", c, "person", "None")>> ELSE <<>>)
    \o (IF worker[t].processor /\ use_gemini
        THEN <<Event("set_status", c, "ai", "None")>>
        ELSE <<Event("set_result", c, "done", "cutout")>>)

\* WorkerReturned without the try/except around the item: the exception of
\* remove_background ends the loop
WorkerReturnedAborts(t) ==
    /\ worker[t].pc = "remove"
    /\ pc[t] = "done"
    /\ LET c == worker[t].cards[worker[t].i + 1]
       IN  IF ret[t].status = "error"
           THEN /\ ui_queue' = Append(ui_queue, Event("set_status", c, "error", "None"))
                /\ worker' = [worker EXCEPT ![t].pc = "loop", ![t].i = Len(worker[t].cards)]
           ELSE /\ ui_queue' = ui_queue \o AfterRemove(t, c)
                /\ worker' = [worker EXCEPT
                                ![t].pc = IF worker[t].processor /\ use_gemini
                                          THEN "enhance" ELSE "loop",
                                ![t].i = IF worker[t].processor /\ use_gemini
                                         THEN @ ELSE @ + 1,
                                ![t].touched = @ \cup {"use_gemini"}]
    /\ ClearFrame(t)
    /\ UNCHANGED <<model_name, session, portrait_session, lock, face_cascade,
                   new_session_calls, batch>>
    /\ UNCHANGED <<image_cards, card, processing, process_button, ui_options>>
    /\ UNCHANGED <<gemini_vars, module_vars>>

\* lines 700-724: remove_background has ended.  Raised: the except branch posts
\* the error status.  Returned: the person status is posted when is_person,
\* then use_gemini is read in the worker thread; with Gemini the "AI" status is
\* posted and enhance_edges is next, without it set_result is posted.
WorkerReturned(t) ==
    /\ worker[t].pc = "remove"
    /\ pc[t] = "done"
    /\ LET c == worker[t].cards[worker[t].i + 1]
       IN  IF ret[t].status = "error"
           THEN /\ ui_queue' = Append(ui_queue, Event("set_status", c, "error", "None"))
                /\ worker' = [worker EXCEPT ![t].pc = "loop", ![t].i = @ + 1]
           ELSE /\ ui_queue' = ui_queue \o AfterRemove(t, c)
                /\ worker' = [worker EXCEPT
                                ![t].pc = IF worker[t].processor /\ use_gemini
                                          THEN "enhance" ELSE "loop",
                                ![t].i = IF worker[t].processor /\ use_gemini
                                         THEN @ ELSE @ + 1,
                                ![t].touched = @ \cup {"use_gemini"}]
    /\ ClearFrame(t)
    /\ UNCHANGED <<model_name, session, portrait_session, lock, face_cascade,
                   new_session_calls, batch>>
    /\ UNCHANGED <<image_cards, card, processing, process_button, ui_options>>
    /\ UNCHANGED <<gemini_vars, module_vars>>

\* lines 713-721: enhance_edges returns the enhanced image, or raises and the
\* inner except keeps the cutout; set_result is posted with what is left
WorkerEnhance(t) ==
    /\ worker[t].pc = "enhance"
    /\ LET c == worker[t].cards[worker[t].i + 1]
       IN  \E result \in {"enhanced", "cutout"} :
              ui_queue' = Append(ui_queue, Event("set_result", c, "done", result))
    /\ worker' = [worker EXCEPT ![t].pc = "loop", ![t].i = @ + 1]
    /\ UNCHANGED <<image_cards, card, processing, process_button, ui_options>>
    /\ UNCHANGED <<core_vars, gemini_vars, module_vars>>

\* line 727: the loop is over, _processing_complete is posted, the thread ends
WorkerFinish(t) ==
    /\ worker[t].pc = "loop"
    /\ worker[t].i = Len(worker[t].cards)
    /\ ui_queue' = Append(ui_queue, Event("complete", 0, "None", "None"))
    /\ worker' = [worker EXCEPT ![t] = NoWorker]
    /\ UNCHANGED <<image_cards, card, processing, process_button, ui_options>>
    /\ UNCHANGED <<core_vars, gemini_vars, module_vars>>

\* the event loop runs the oldest posted callback: ImageCard.set_status (lines
\* 197-201), ImageCard.set_result (203-214) or _processing_complete (729-735)
RunCallback ==
    /\ ui_queue # <<>>
    /\ LET e == Head(ui_queue)
       IN  \/ /\ e.kind = "set_status"
              /\ card' = [card EXCEPT ![e.card].status = e.status]
              /\ UNCHANGED <<processing, process_button>>
           \/ /\ e.kind = "set_result"
              /\ card' = [card EXCEPT ![e.card].result = e.result,
                                      ![e.card].is_processed = TRUE,
                                      ![e.card].status = "done"]
              /\ UNCHANGED <<processing, process_button>>
           \/ /\ e.kind = "complete"
              /\ processing' = FALSE
              /\ process_button' = "normal"
              /\ UNCHANGED card
    /\ ui_queue' = Tail(ui_queue)
    /\ UNCHANGED <<image_cards, ui_options, worker>>
    /\ UNCHANGED <<core_vars, gemini_vars, module_vars>>

\* the event loop of the window and the worker threads it starts
NextUI ==
    \/ AddImages
    \/ ToggleSelectAll
    \/ SetOption
    \/ ShowApiDialog
    \/ ProcessImages
    \/ RunCallback
    \/ \E t \in Threads :
          \/ WorkerSetup(t)
          \/ WorkerSetupRaises(t)
          \/ WorkerCollect(t)
          \/ WorkerItem(t)
          \/ WorkerRemove(t)
          \/ WorkerReturned(t)
          \/ WorkerEnhance(t)
          \/ WorkerFinish(t)

SpecUI == InitDefault /\ [][NextUI]_vars

\* the window with the option switches left as they start (Gemini
\* post-processing off), and the delete button in use
NextDelete ==
    \/ AddImages
    \/ ToggleSelectAll
    \/ DeleteSelected
    \/ ProcessImages
    \/ RunCallback
    \/ \E t \in Threads :
          \/ WorkerSetup(t)
          \/ WorkerCollect(t)
          \/ WorkerItem(t)
          \/ WorkerRemove(t)
          \/ WorkerReturned(t)
          \/ WorkerFinish(t)

SpecDelete == InitDefault /\ [][NextDelete]_vars

(* ======================= claims ======================= *)

\* thread t is inside the with block: between taking the lock and leaving it
InCritical(t) == pc[t] \in {"session", "infer"}

\* C1: at most one thread is inside the critical section "get-or-create
\* session, then run inference" at any time, and it is the holder of the lock:
\* two inferences never overlap, nor a session construction and an inference.
C1_MutualExclusion ==
    /\ \A t1, t2 \in Threads : (InCritical(t1) /\ InCritical(t2)) => t1 = t2
    /\ \A t \in Threads : InCritical(t) => lock = t

\* C1 witness: one thread is running inference while another waits for the lock
C1_Witness ==
    \E t1, t2 \in Threads : t1 # t2 /\ pc[t1] = "infer" /\ pc[t2] = "lock"

\* C2: the session of any given model name is constructed at most once on one
\* BackgroundRemover (new_session returns a handle for that name at most once).
C2_OncePerName ==
    \A m \in AVAILABLE_MODELS : new_session_calls[m] <= 1

\* C3: when new_session raises inside remove_background the call fails with
\* that error, the session slot it was filling is still None afterwards and the
\* lock is free, so nothing of the failure is cached.
C3_FailureNotCached ==
    [][\A t \in Threads :
         (pc[t] = "session" /\ pc'[t] = "done") =>
            /\ ret'[t].status = "error"
            /\ ret'[t].error = "ModelLoadError"
            /\ lock = t /\ lock' = 0
            /\ IF is_person[t] THEN portrait_session' = NoSession
                               ELSE session' = NoSession]_vars

\* C3 witness: a call failed on the construction of a session and, before its
\* caller has taken the exception, a later call has constructed that session
C3_Witness ==
    \E t \in Threads :
        /\ pc[t] = "done"
        /\ ret[t].error = "ModelLoadError"
        /\ SlotOf(use_portrait[t] = "portrait") # NoSession

\* C4: with auto_detect_person=False the detector is not run, the session
\* requested and used for inference is the general one, and the flag returned
\* is false, whatever the image.
C4_NoAutoDetect ==
    \A t \in Threads :
        (args[t] # NoArgs /\ ~args[t].auto_detect_person) =>
            /\ detected[t] = "not run"
            /\ pc[t] # "detect"
            /\ use_portrait[t] \in {"none", "general"}
            /\ ret[t].status = "ok" =>
                  /\ ~ret[t].is_person
                  /\ ret[t].result.by = session

\* C4 witness: a call without auto-detection on the image with a face returned
C4_Witness ==
    \E t \in Threads :
        /\ args[t].image = "face"
        /\ ~args[t].auto_detect_person
        /\ ret[t].status = "ok"

\* C5: with auto_detect_person=True the portrait session is the one requested
\* and used for inference exactly when detect_person returned true, and the
\* flag returned equals that detection result.
C5_AutoDetectRoutes ==
    \A t \in Threads :
        (args[t] # NoArgs /\ args[t].auto_detect_person) =>
            /\ use_portrait[t] # "none" =>
                  (use_portrait[t] = "portrait" <=> detected[t] = "yes")
            /\ ret[t].status = "ok" =>
                  /\ ret[t].is_person <=> detected[t] = "yes"
                  /\ detected[t] = "yes" => ret[t].result.by = portrait_session
                  /\ detected[t] # "yes" => ret[t].result.by = session
                  /\ ret[t].result.by # NoSession

\* C5 witness: an auto-detecting call found a person and returned, while the
\* general session exists too
C5_Witness ==
    \E t \in Threads :
        /\ args[t].auto_detect_person
        /\ detected[t] = "yes"
        /\ ret[t].status = "ok"
        /\ session # NoSession

\* C6: an error raised inside detect_person is absorbed: the result is false,
\* the call goes on to the lock with the general session, and whatever the
\* call raises later is not the detector's error.
C6_DetectorFaultAbsorbed ==
    \A t \in Threads :
        detected[t] = "fault" =>
            /\ ~is_person[t]
            /\ pc[t] \in {"lock", "session", "infer", "done"}
            /\ use_portrait[t] \in {"none", "general"}
            /\ ret[t].status = "error" => ret[t].error \in {"ModelLoadError", "InferenceError"}
            /\ ret[t].status = "ok" => (~ret[t].is_person /\ ret[t].result.by = session)

\* C6 witness: the detector failed on the image with a face and the call returned
C6_Witness ==
    \E t \in Threads :
        /\ detected[t] = "fault"
        /\ args[t].image = "face"
        /\ ret[t].status = "ok"

\* C7: the alpha blur is applied after inference exactly when the preset's
\* blur radius is positive: never with 'fast', always (once, with the preset's
\* radius) with 'normal' and 'high'; it changes the alpha channel only.
C7_BlurIffPositiveRadius ==
    \A t \in Threads :
        ret[t].status = "ok" =>
            LET out == ret[t].result
                q   == args[t].quality
            IN  /\ out.r = <<>> /\ out.g = <<>> /\ out.b = <<>>
                /\ out.a # <<>> <=> PresetOf(q).blur_radius > 0
                /\ q = "fast" => out.a = <<>>
                /\ q = "normal" => out.a = <<5>>
                /\ q = "high" => out.a = <<3>>

\* C7 witness: within one batch a 'high' call has returned its blurred result
C7_Witness ==
    /\ batch.pc = "item"
    /\ ret[BatchThread].status = "ok"
    /\ args[BatchThread].quality = "high"
    /\ ret[BatchThread].result.a = <<3>>

\* C8: with a progress callback, the k-th invocation is (k, N) with N the
\* length of the input list; it comes after item k was processed and its
\* result stored and before item k+1 is started, and a batch whose items all
\* succeed has invoked it exactly N times when it returns.
C8_ProgressCallback ==
    batch.has_callback =>
        /\ \A k \in 1..Len(batch.cb_log) : batch.cb_log[k] = <<k, Len(batch.images)>>
        /\ Len(batch.cb_log) = batch.i
        /\ batch.pc = "item" => Len(batch.results) = batch.i
        /\ batch.pc = "callback" =>
              (Len(batch.results) = batch.i + 1 /\ pc[BatchThread] = "idle")
        /\ batch.pc = "loop" => Len(batch.results) = batch.i
        /\ batch.pc = "returned" => Len(batch.cb_log) = Len(batch.images)

\* C8 witness: a batch of three images with a callback has returned
C8_Witness ==
    /\ batch.pc = "returned"
    /\ batch.has_callback
    /\ Len(batch.images) = 3
    /\ batch.cb_log = <<<<1, 3>>, <<2, 3>>, <<3, 3>>>>

\* C9: the items are processed one at a time in input order: the item in
\* progress is the one after the results so far, the i-th result is that of
\* the i-th input, and the list returned has the length of the input.
C9_InputOrder ==
    /\ \A k \in 1..Len(batch.results) :
          batch.results[k].result.of = batch.images[k].id
    /\ Len(batch.results) <= Len(batch.images)
    /\ batch.pc = "item" =>
          /\ args[BatchThread].image = batch.images[batch.i + 1].id
          /\ Len(batch.results) = batch.i
    /\ batch.pc = "returned" =>
          /\ Len(batch.returned) = Len(batch.images)
          /\ \A k \in 1..Len(batch.returned) :
                batch.returned[k].result.of = batch.images[k].id

\* C9 witness: a batch over two different images has returned both results
C9_Witness ==
    /\ batch.pc = "returned"
    /\ Len(batch.returned) >= 2
    /\ batch.returned[1].result.of # batch.returned[2].result.of

\* C10: when item k fails the batch ends with that failure: the step that
\* takes the failure raises it, no list is returned, the callback has been
\* invoked k-1 times, and no later item is started.
C10_FailureAborts ==
    [][/\ (batch.pc = "item" /\ pc[BatchThread] = "done"
                             /\ ret[BatchThread].status = "error")
            => (batch'.pc = "raised" /\ batch'.error = ret[BatchThread].error)
       /\ batch'.pc = "raised" =>
            /\ batch'.returned = <<>>
            /\ batch'.i < batch'.total
            /\ Len(batch'.results) = batch'.i
            /\ Len(batch'.cb_log) = (IF batch'.has_callback THEN batch'.i ELSE 0)
            /\ pc'[BatchThread] = "idle"
       /\ batch.pc = "raised" => batch'.pc = "idle"]_vars

\* C10 witness: the third item of a batch with a callback has failed, after
\* two callbacks
C10_Witness ==
    /\ batch.pc = "raised"
    /\ batch.has_callback
    /\ batch.i = 2
    /\ Len(batch.cb_log) = 2

(* ---------------- claims about the GeminiProcessor ---------------- *)

\* an enhance_edges call has ended and its frame is still there
Enhanced == gp.op = "enhance_edges"

Baseline == <<"alpha:SMOOTH", "image:Sharpness(1.1)">>

\* the three flags of the verdict the call worked with
VerdictAllFalse ==
    /\ ~Flag(gp.analysis, "edge_rough")
    /\ ~Flag(gp.analysis, "has_halo")
    /\ ~Flag(gp.analysis, "needs_smoothing")

\* the result is a separate object holding the pixels of the input
UnchangedCopy ==
    /\ gp.result.of = gp.image.of
    /\ gp.result.mode = gp.image.mode
    /\ gp.result.ops = gp.image.ops
    /\ gp.result.obj # gp.image.obj

\* the result is the input with exactly the filters of ops applied, in order
ResultHas(ops) ==
    /\ gp.result.of = gp.image.of
    /\ gp.result.mode = gp.image.mode
    /\ gp.result.ops = gp.image.ops \o ops
    /\ gp.result.obj # gp.image.obj

\* number of "{" minus number of "}" among the first i tokens
Depth(s, i) ==
    Cardinality({ j \in 1..i : s[j] = "{" }) - Cardinality({ j \in 1..i : s[j] = "}" })

NoBraces(s) == ~Contains(s, "{") /\ ~Contains(s, "}")

Balanced(s) == Depth(s, Len(s)) = 0 /\ \A i \in 1..Len(s) : Depth(s, i) >= 0

\* the pairs <<f, e>>: s[f] is a "{" and s[e] the "}" that closes it
Closings(s) ==
    { p \in (1..Len(s)) \X (1..Len(s)) :
        /\ p[1] < p[2]
        /\ s[p[1]] = "{"
        /\ s[p[2]] = "}"
        /\ Depth(s, p[2]) = Depth(s, p[1] - 1)
        /\ \A k \in p[1]..(p[2] - 1) : Depth(s, k) > Depth(s, p[1] - 1) }

\* the first balanced {...} span of the text (<<>> when there is none)
FirstBalancedSpan(s) ==
    IF Closings(s) = {} THEN <<>>
    ELSE LET p == CHOOSE c \in Closings(s) : \A d \in Closings(s) : c[1] <= d[1]
         IN  SubSeq(s, p[1], p[2])

\* a malformed or empty response text: no braces, unbalanced braces, or
\* balanced braces around text that is not JSON
Malformed(s) ==
    \/ NoBraces(s)
    \/ ~Balanced(s)
    \/ (Balanced(s) /\ ~JsonDecodes(FirstBalancedSpan(s)))

\* the text from the first "{" to the last "}" is by itself a valid object
OuterSpanDecodes(s) ==
    Contains(s, "{") /\ Contains(s, "}") /\ JsonDecodes(JsonSpan(s))

\* C11: enhance_edges(img, auto_enhance=False) returns a separate image with
\* the pixels of the input, with no remote call and no filter applied, whether
\* or not a credential is configured.
C11_NoAutoEnhanceIsCopy ==
    (Enhanced /\ ~gp.auto_enhance) =>
        /\ gp.status = "ok"
        /\ gp.remote_calls = 0
        /\ UnchangedCopy
        /\ gp.image \in GImages

\* C11 witness: with a credential configured, the call on an in-memory image
\* has returned
C11_Witness ==
    /\ Enhanced /\ ~gp.auto_enhance
    /\ gp_model = "configured"
    /\ gp.image.kind = "image"
    /\ gp.status = "ok"

\* C12 as stated: for every malformed or empty response text the verdict is all
\* false and enhance_edges returns, without raising, an image with only the
\* baseline smoothing and sharpening applied.
C12_Original ==
    (Enhanced /\ gp.remote = "text" /\ Malformed(gp.text)) =>
        /\ gp.status = "ok"
        /\ VerdictAllFalse
        /\ ResultHas(Baseline)

\* C12 amended: for every response text that is empty, without braces, balanced
\* around non-JSON text, or unbalanced and not a valid object from its first
\* "{" to its last "}", the verdict is all false and enhance_edges returns
\* without raising: an RGBA image with only the baseline smoothing and
\* sharpening applied, any other image as an unchanged copy.
C12_MalformedGivesBaseline ==
    (/\ Enhanced /\ gp.remote = "text" /\ Malformed(gp.text)
     /\ ~(~Balanced(gp.text) /\ OuterSpanDecodes(gp.text))) =>
        /\ gp.status = "ok"
        /\ VerdictAllFalse
        /\ gp.image.mode = "RGBA" => ResultHas(Baseline)
        /\ gp.image.mode # "RGBA" => UnchangedCopy

\* C12 witness: the response was braces around non-JSON text, for an RGBA image
C12_Witness ==
    /\ Enhanced /\ gp.remote = "text"
    /\ gp.text = <<"{", "x", "}">>
    /\ gp.image.mode = "RGBA"
    /\ gp.result.ops = Baseline

\* C13: with a credential, when the remote call of enhance_edges(img, True)
\* raises, no exception reaches the caller and the image returned is what the
\* local enhancement gives without a verdict: the baseline filters on an RGBA
\* image, and nothing on an image without alpha.
C13_RemoteFailureFallsBack ==
    (Enhanced /\ gp.remote = "raised") =>
        /\ gp.status = "ok"
        /\ gp.analysis.none
        /\ gp.image.mode = "RGBA" => ResultHas(Baseline)
        /\ gp.image.mode # "RGBA" => UnchangedCopy

\* C13 witness: the remote call raised on an RGBA image and the call returned
C13_Witness ==
    /\ Enhanced /\ gp.remote = "raised"
    /\ gp.remote_calls = 1
    /\ gp.image.mode = "RGBA"
    /\ gp.status = "ok"

\* C14 as stated: without a credential enhance_edges(img, True) makes no remote
\* call, does not raise, and returns the image with the baseline smoothing and
\* sharpening applied.
C14_Original ==
    (Enhanced /\ gp.auto_enhance /\ gp_model = "None") =>
        /\ gp.remote_calls = 0
        /\ gp.status = "ok"
        /\ ResultHas(Baseline)

\* C14 amended: without a credential enhance_edges(img, True) makes no remote
\* call, does not raise, and returns what an all-false verdict gives: an RGBA
\* image with the baseline smoothing and sharpening applied, any other image
\* as an unchanged copy.
C14_NoCredentialIsLocal ==
    (Enhanced /\ gp.auto_enhance /\ gp_model = "None") =>
        /\ gp.remote_calls = 0
        /\ gp.status = "ok"
        /\ gp.result.ops = ApplyEdgeEnhancement(LoadImage(gp.image), EmptyDict).ops
        /\ gp.image.mode = "RGBA" => ResultHas(Baseline)
        /\ gp.image.mode # "RGBA" => UnchangedCopy

\* C14 witness: without a credential the call on an RGBA image has returned
C14_Witness ==
    /\ Enhanced /\ gp.auto_enhance
    /\ gp_model = "None"
    /\ gp.image.mode = "RGBA"
    /\ gp.result.ops = Baseline

\* the filters C15 names for the verdict the call worked with, in its order
VerdictFilters ==
    <<"alpha:SMOOTH">>
    \o (IF Flag(gp.analysis, "has_halo") THEN <<"alpha:MinFilter(3)">> ELSE <<>>)
    \o (IF Flag(gp.analysis, "edge_rough") THEN <<"alpha:GaussianBlur(0.5)">> ELSE <<>>)
    \o <<"image:Sharpness(1.1)">>

\* C15 as stated: for every input image and every verdict enhance_edges(img,
\* True) smooths the alpha channel, erodes it iff has_halo, blurs it iff
\* edge_rough, then sharpens the whole image, in that order.
C15_Original ==
    (Enhanced /\ gp.auto_enhance /\ gp.status = "ok") => ResultHas(VerdictFilters)

\* C15 amended: the same for every RGBA input image; an image of another mode
\* is returned as an unchanged copy, with no filter applied.
C15_FilterOrder ==
    (Enhanced /\ gp.auto_enhance /\ gp.status = "ok") =>
        /\ gp.image.mode = "RGBA" => ResultHas(VerdictFilters)
        /\ gp.image.mode # "RGBA" => UnchangedCopy

\* C15 witness: a verdict with has_halo and edge_rough, on an RGBA image
C15_Witness ==
    /\ Enhanced /\ gp.auto_enhance
    /\ gp.image.mode = "RGBA"
    /\ Flag(gp.analysis, "has_halo") /\ Flag(gp.analysis, "edge_rough")
    /\ gp.result.ops = <<"alpha:SMOOTH", "alpha:MinFilter(3)", "alpha:GaussianBlur(0.5)",
                         "image:Sharpness(1.1)">>

\* C16: the verdict is the decoding of the first balanced {...} span of the
\* response text, and all false only when that span does not decode.
C16_FirstBalancedSpan ==
    (Enhanced /\ gp.remote = "text" /\ FirstBalancedSpan(gp.text) # <<>>) =>
        gp.analysis = (IF JsonDecodes(FirstBalancedSpan(gp.text))
                       THEN JsonLoads(FirstBalancedSpan(gp.text))
                       ELSE EmptyDict)

\* C17: get_quality_score returns exactly three ratings, each in 0..10.
C17_ScoresInRange ==
    (gp.op = "get_quality_score" /\ gp.status = "ok") =>
        /\ gp.n_scores = 3
        /\ gp.scores.edge_quality \in 0..10
        /\ gp.scores.transparency \in 0..10
        /\ gp.scores.overall \in 0..10

(* ---------------- claims about the application window ---------------- *)

\* the threads that are inside remove_background
Removing == { t \in Threads : pc[t] # "idle" }

\* C18: at most one worker thread runs at any time, and only while the
\* processing flag is set, so that a click during a run starts no second worker;
\* at most one thread is inside remove_background.
C18_SingleWorker ==
    /\ Cardinality(Running) <= 1
    /\ Cardinality(Removing) <= 1
    /\ Running # {} => (processing /\ process_button = "disabled")

\* C18 witness: a worker is at its second item while unprocessed selected cards
\* are left, so a click would find work to start
C18_Witness ==
    /\ \E t \in Threads : worker[t].pc = "remove" /\ worker[t].i = 1
    /\ SelectedUnprocessed # <<>>
    /\ processing

\* C19: no worker thread reads or writes an attribute of the window or of its
\* cards itself; it only posts callbacks.
C19_WorkerNeverTouchesUI ==
    \A t \in Threads : worker[t].touched = {}

InProgress == {"processing", "person", "ai"}

\* the order of the in-progress labels of a card
Rank(status) ==
    IF status = "processing" THEN 1 ELSE IF status = "person" THEN 2 ELSE 3

\* the changes of a card's status that C20 allows: made -> pending ->
\* processing (with its later in-progress labels, in order) -> done or error
ClaimedMove(old, new) ==
    \/ old = "none" /\ new = "pending"
    \/ old = "pending" /\ new = "processing"
    \/ old \in InProgress /\ new \in InProgress /\ Rank(old) < Rank(new)
    \/ old \in InProgress /\ new \in {"done", "error"}

\* the status of a card that stays changes only when the event loop runs a
\* callback posted for that card
OwnCallbackOnly ==
    \A c \in CardIds :
       (/\ card[c].status # "none"
        /\ card'[c].status \notin {card[c].status, "destroyed"}) =>
           /\ ui_queue # <<>>
           /\ Head(ui_queue).card = c
           /\ ui_queue' = Tail(ui_queue)

\* the callbacks for card c among the posted ones
CardCallbacks(queue, c) ==
    SelectSeq(queue, LAMBDA e : e.card = c /\ e.kind \in {"set_status", "set_result"})

\* when the worker posts _processing_complete and ends, every card of its run
\* is done or in error, or the last callback posted for it makes it so
RunSettled ==
    \A t \in Threads :
       (worker[t].pc = "loop" /\ worker'[t].pc = "idle") =>
           \A k \in 1..Len(worker[t].cards) :
              LET c == worker[t].cards[k]
                  posted == CardCallbacks(ui_queue', c)
              IN  IF posted = <<>>
                  THEN card[c].status \in {"done", "error"}
                  ELSE posted[Len(posted)].status \in {"done", "error"}

\* C20 as stated: on the event loop every card of a run goes from pending to
\* processing and then to exactly one of done or error, an error is recorded on
\* its card only, and the cards after it are still processed.
C20_Original ==
    [][/\ \A c \in CardIds :
             (card'[c].status # card[c].status /\ card'[c].status # "destroyed") =>
                 ClaimedMove(card[c].status, card'[c].status)
       /\ OwnCallbackOnly
       /\ RunSettled]_vars

\* C20 amended: the same, where a card enters processing from pending or from
\* the error status an earlier run left on it.
C20_StatusOrder ==
    [][/\ \A c \in CardIds :
             (card'[c].status # card[c].status /\ card'[c].status # "destroyed") =>
                 \/ ClaimedMove(card[c].status, card'[c].status)
                 \/ card[c].status = "error" /\ card'[c].status = "processing"
       /\ OwnCallbackOnly
       /\ RunSettled]_vars

\* C20 witness: the worker is through its run over two cards and the event
\* loop has run their callbacks; the first card is in error, the one after it
\* is done
C20_Witness ==
    /\ processing
    /\ ui_queue = <<>>
    /\ \E t \in Threads :
          worker[t].pc = "loop" /\ worker[t].cards = <<1, 2>> /\ worker[t].i = 2
    /\ card[1].status = "error"
    /\ card[2].status = "done" /\ card[2].is_processed

\* C22: every call of get_remover returns the same BackgroundRemover, also when
\* the first calls come from two threads at once: one object is ever made and
\* all the removers the threads hold are that one.
C22_OneRemover ==
    /\ removers_made <= 1
    /\ \A t, u \in Threads :
          (getter[t].ret # 0 /\ getter[u].ret # 0) => getter[t].ret = getter[u].ret

\* _processing_complete is among the posted callbacks
CompletePosted == \E k \in 1..Len(ui_queue) : ui_queue[k].kind = "complete"

\* C21: a run that has been started can still end: while the processing flag
\* is set, either its worker thread is alive or _processing_complete is posted,
\* whatever the outcome of the items and of the worker's setup steps.
C21_RunCanEnd ==
    processing => (Running # {} \/ CompletePosted)

\* C23: while a run is in progress no card leaves the card list or is
\* destroyed, a delete request made then changes nothing, and every status or
\* result callback the event loop runs is for a card that is on the list.
C23_NoRemovalDuringRun ==
    [][/\ processing =>
             \A k \in 1..Len(image_cards) :
                /\ k <= Len(image_cards')
                /\ image_cards'[k] = image_cards[k]
                /\ card'[image_cards[k]].status # "destroyed"
       /\ (/\ ui_queue # <<>>
           /\ ui_queue' = Tail(ui_queue)
           /\ Head(ui_queue).kind \in {"set_status", "set_result"}) =>
              /\ Listed(Head(ui_queue).card)
              /\ card[Head(ui_queue).card].status # "destroyed"]_vars

\* C23 witness: during a run a result callback waits for a selected card, which
\* a delete request would take off the list were it not refused
C23_Witness ==
    /\ processing
    /\ ui_queue # <<>>
    /\ Head(ui_queue).kind = "set_result"
    /\ Listed(Head(ui_queue).card)
    /\ card[Head(ui_queue).card].is_selected

====
